---- MODULE Spec2Model ----
(***************************************************************************)
(* fastatsd: producers record metrics into a shared MetricCollector under  *)
(* a Condition; one CystatsSender thread drains it and sends UDP payloads. *)
(* Model of src/fastatsd/client.py.  Program counters are named after the  *)
(* source line the thread is about to execute.                             *)
(***************************************************************************)
EXTENDS Integers, Sequences, FiniteSets, TLC

\* ---------------------------------------------------------------- bounds
NumProducers == 2      \* producer threads
MaxCalls == 2          \* recording calls per producer thread
MaxSenders == 2        \* CystatsSender objects ever created (1 + restarts)
MaxOps == 3            \* stop()/__enter__/__exit__ calls of the owning thread
PayloadCap == 2        \* metric lines the collector packs into one datagram

Producers == 1..NumProducers
Senders == 1..MaxSenders

\* ---------------------------------------------------------------- threads
NoThread == <<"none", 0>>
MainT == <<"main", 0>>
PT(p) == <<"producer", p>>
ST(s) == <<"sender", s>>

VARIABLES
  lock,            \* owner of the Condition's lock (self._queue_cv)
  waiters,         \* senders blocked in cv.wait(), not yet notified
  queue,           \* pending events of the MetricCollector (self._queue)
  running,         \* CystatsSender._running, per sender object
  spc,             \* per sender object: position of its thread in run()
  buffer,          \* per sender: local `buffer` of run(), a one-shot iterable
  sender_thread,   \* FastatsClient._sender_thread (index of the object)
  hooks,           \* number of atexit registrations of self.stop
  assertsOn,       \* whether the interpreter executes assert statements:
                   \* "?" until the first assert that would fail, which
                   \* settles it for the rest of the run (python or python -O)
  ppc,             \* per producer: position in the recording call
  pcall,           \* per producer: arguments and sampling draw of the call
  pdone,           \* per producer: calls that have returned
  npush,           \* per producer: collector pushes of the current call
  nnotify,         \* per producer: cv.notify() calls of the current call
  hist,            \* per producer: one record per returned call
  mpc,             \* owning thread: position in stop()/__enter__
  mop,             \* owning thread: operation being executed
  mops,            \* owning thread: operations started
  scopes,          \* open `with client:` scopes
  raised,          \* the last operation of the owning thread raised
  stopDone,        \* the last operation was a stop() that returned normally
  mustDeliver,     \* events of calls that had returned when stop() was called
  allReturnedAtStop, \* every producer had finished when stop() was called
  stopSnap,        \* at the last `_running = False`: was the sender in wait(),
                   \* and Len(pushLog)
  enterStarted,    \* the last __enter__ started a new sender
  aliveAtEnter,    \* is_alive() as the last __enter__ read it
  enterMark,       \* Len(pushLog) when the last __enter__ was called
  pushLog,         \* every event ever pushed, in push order
  drainCuts,       \* Len(pushLog) at each drain
  sent,            \* every payload handed to sendto, in order
  now,             \* time.monotonic(), in half milliseconds
  t_start_time,    \* Timer._start_time (-1 for None)
  t_ms,            \* Timer.ms (-1 for None)
  t_sent,          \* Timer._sent
  t_raised,        \* the last Timer call raised RuntimeError
  timings,         \* every delta passed to client.timing by the Timer
  t_since,         \* client.timing calls since the last start()
  t_calls,         \* Timer calls made
  t_open,          \* wrapped executions entered and not yet exited
  t_wrapped,       \* wrapped executions completed
  t_explicit,      \* start/stop/send were called outside __enter__/__exit__
  t_last           \* the method of the last Timer call

syncVars == <<lock, waiters, queue>>
senderVars == <<running, spc, buffer, sender_thread, hooks, assertsOn>>
prodVars == <<ppc, pcall, pdone, npush, nnotify, hist>>
enterVars == <<enterStarted, aliveAtEnter, enterMark>>
mainVars == <<mpc, mop, mops, scopes, raised, stopDone, mustDeliver,
              allReturnedAtStop, stopSnap, enterVars>>
histVars == <<pushLog, drainCuts, sent>>
timerVars == <<now, t_start_time, t_ms, t_sent, t_raised, timings, t_since,
               t_calls, t_open, t_wrapped, t_explicit, t_last>>
clientVars == <<syncVars, senderVars, prodVars, mainVars, histVars>>
vars == <<clientVars, timerVars>>

\* ---------------------------------------------------------------- inputs
\* Rates and sampling draws in tenths.  random.random() is in [0, 1).
Rates == {0, 5, 10}
Draws == {0, 7}

Call(op, val, rate, delta) ==
  [op |-> op, val |-> val, rate |-> rate, delta |-> delta]

NoCall == [op |-> "none", val |-> 0, rate |-> 0, delta |-> FALSE,
           draw |-> 0, n |-> 0]

\* Inputs of the concurrency specifications: full-rate counters.
CoreInputs == {Call("incr", 1, 10, FALSE)}
CoreDraws == {3}

\* Inputs of the recording specification: every operation, rate and sign.
RecInputs ==
  {Call(op, 1, r, FALSE) : op \in {"incr", "timing", "set"}, r \in Rates}
  \cup {Call("gauge", v, r, d) : v \in {-7, 5}, r \in {0, 10}, d \in BOOLEAN}

\* ---------------------------------------------------------------- helpers
\* Dropped with the sampling test left out
DroppedNever(draw, rate) == FALSE

\* random.random() > rate (l.191, 205, 226, 244)
Dropped(draw, rate) == draw > rate

Kind(op) ==
  CASE op = "incr" -> "counter"
    [] op = "timing" -> "timer"
    [] op = "gauge" -> "gauge"
    [] op = "set" -> "set"

Event(p, n, part, kind, val, rate, delta) ==
  [p |-> p, n |-> n, part |-> part, kind |-> kind, val |-> val,
   rate |-> rate, delta |-> delta]

\* NeedsReset without the test of delta
NeedsResetAnyDelta(c) == c.op = "gauge" /\ c.val < 0

\* gauge(), l.230: value < 0 and not delta
NeedsReset(c) == c.op = "gauge" /\ c.val < 0 /\ ~c.delta

RECURSIVE Chunks(_)
\* MetricCollector.flush(): the pending lines packed, in order, into payloads
Chunks(q) ==
  IF Len(q) = 0 THEN <<>>
  ELSE IF Len(q) <= PayloadCap THEN <<q>>
  ELSE <<SubSeq(q, 1, PayloadCap)>> \o Chunks(SubSeq(q, PayloadCap + 1, Len(q)))

\* Thread.is_alive()
Alive(s) == spc[s] \notin {"none", "unstarted", "dead"}

RECURSIVE Flatten(_)
Flatten(ps) == IF Len(ps) = 0 THEN <<>> ELSE Head(ps) \o Flatten(Tail(ps))

Range(f) == {f[i] : i \in DOMAIN f}

SentEvents == Flatten([i \in DOMAIN sent |-> sent[i].payload])
PushedEvents == Range(pushLog)
ReturnedEvents == {e \in PushedEvents : e.n <= pdone[e.p]}

\* The events of the k-th drain
DrainedBatch(k) ==
  SubSeq(pushLog, (IF k = 1 THEN 0 ELSE drainCuts[k - 1]) + 1, drainCuts[k])

RECURSIVE DrainedPayloads(_)
\* The payloads of the first k drains, in drain order
DrainedPayloads(k) ==
  IF k = 0 THEN <<>>
  ELSE DrainedPayloads(k - 1) \o Chunks(DrainedBatch(k))

\* ---------------------------------------------------------------- Init
\* State after FastatsClient.__init__: the first sender has been created and
\* started and self.stop is registered with atexit.
Init ==
  /\ lock = NoThread
  /\ waiters = {}
  /\ queue = <<>>
  /\ running = [s \in Senders |-> s = 1]
  /\ spc = [s \in Senders |-> IF s = 1 THEN "L105" ELSE "none"]
  /\ buffer = [s \in Senders |-> <<>>]
  /\ sender_thread = 1
  /\ hooks = 1
  /\ assertsOn = "?"
  /\ ppc = [p \in Producers |-> "idle"]
  /\ pcall = [p \in Producers |-> NoCall]
  /\ pdone = [p \in Producers |-> 0]
  /\ npush = [p \in Producers |-> 0]
  /\ nnotify = [p \in Producers |-> 0]
  /\ hist = [p \in Producers |-> <<>>]
  /\ mpc = "idle"
  /\ mop = "init"
  /\ mops = 0
  /\ scopes = 0
  /\ raised = FALSE
  /\ stopDone = FALSE
  /\ mustDeliver = {}
  /\ allReturnedAtStop = FALSE
  /\ stopSnap = [waiting |-> FALSE, mark |-> 0]
  /\ enterStarted = FALSE
  /\ aliveAtEnter = TRUE
  /\ enterMark = 0
  /\ pushLog = <<>>
  /\ drainCuts = <<>>
  /\ sent = <<>>
  /\ now = 0
  /\ t_start_time = -1
  /\ t_ms = -1
  /\ t_sent = FALSE
  /\ t_raised = FALSE
  /\ timings = <<>>
  /\ t_since = 0
  /\ t_calls = 0
  /\ t_open = 0
  /\ t_wrapped = 0
  /\ t_explicit = FALSE
  /\ t_last = "none"

\* ---------------------------------------------------------------- cv
\* Condition.notify(): wake one waiter, if any
Notify(w) ==
  IF waiters = {} THEN /\ w = 0
                       /\ UNCHANGED <<waiters, spc>>
  ELSE /\ w \in waiters
       /\ waiters' = waiters \ {w}
       /\ spc' = [spc EXCEPT ![w] = "L110n"]

\* ---------------------------------------------------------------- producers
\* incr/gauge/timing/set up to the sampling test (l.191, 205, 226, 244)
PCall(p, c, d) ==
  /\ ppc[p] = "idle"
  /\ pdone[p] < MaxCalls
  /\ LET cc == [op |-> c.op, val |-> c.val, rate |-> c.rate,
                delta |-> c.delta, draw |-> d, n |-> pdone[p] + 1]
     IN IF Dropped(d, c.rate)
        THEN /\ hist' = [hist EXCEPT ![p] =
                           Append(@, [call |-> cc, pushes |-> 0,
                                      notifies |-> 0])]
             /\ pdone' = [pdone EXCEPT ![p] = @ + 1]
             /\ UNCHANGED <<ppc, pcall>>
        ELSE /\ pcall' = [pcall EXCEPT ![p] = cc]
             /\ ppc' = [ppc EXCEPT ![p] = "acquire"]
             /\ UNCHANGED <<hist, pdone>>
  /\ UNCHANGED <<npush, nnotify, syncVars, senderVars, mainVars, histVars>>
  /\ UNCHANGED timerVars

\* PAcquire without waiting for the lock
PAcquireNoLock(p) ==
  /\ ppc[p] = "acquire"
  /\ lock' = IF lock = NoThread THEN PT(p) ELSE lock
  /\ ppc' = [ppc EXCEPT ![p] = IF NeedsReset(pcall[p]) THEN "push0" ELSE "push"]
  /\ UNCHANGED <<waiters, queue, pcall, pdone, npush, nnotify, hist,
                 senderVars, mainVars, histVars>>
  /\ UNCHANGED timerVars

\* self._queue_cv.acquire()
PAcquire(p) ==
  /\ ppc[p] = "acquire"
  /\ lock = NoThread
  /\ lock' = PT(p)
  /\ ppc' = [ppc EXCEPT ![p] = IF NeedsReset(pcall[p]) THEN "push0" ELSE "push"]
  /\ UNCHANGED <<waiters, queue, pcall, pdone, npush, nnotify, hist,
                 senderVars, mainVars, histVars>>
  /\ UNCHANGED timerVars

PushEvent(p, e) ==
  /\ queue' = Append(queue, e)
  /\ pushLog' = Append(pushLog, e)
  /\ npush' = [npush EXCEPT ![p] = @ + 1]

\* gauge(), l.233: self._queue.push_gauge(self._prefix + stat, 0, 1)
PPushReset(p) ==
  /\ ppc[p] = "push0"
  /\ PushEvent(p, Event(p, pcall[p].n, 0, "gauge", 0, 10, FALSE))
  /\ ppc' = [ppc EXCEPT ![p] = "push"]
  /\ UNCHANGED <<lock, waiters, pcall, pdone, nnotify, hist, senderVars,
                 mainVars, drainCuts, sent>>
  /\ UNCHANGED timerVars

\* push_timer / push_counter / push_gauge / push_set (l.195, 209, 234, 248)
PPush(p) ==
  /\ ppc[p] = "push"
  /\ LET c == pcall[p]
     IN PushEvent(p, Event(p, c.n, 1, Kind(c.op), c.val, c.rate, c.delta))
  /\ ppc' = [ppc EXCEPT ![p] = "notify"]
  /\ UNCHANGED <<lock, waiters, pcall, pdone, nnotify, hist, senderVars,
                 mainVars, drainCuts, sent>>
  /\ UNCHANGED timerVars

\* self._queue_cv.notify()
PNotify(p) ==
  /\ ppc[p] = "notify"
  /\ \E w \in waiters \cup {0} : Notify(w)
  /\ nnotify' = [nnotify EXCEPT ![p] = @ + 1]
  /\ ppc' = [ppc EXCEPT ![p] = "release"]
  /\ UNCHANGED <<lock, queue, pcall, pdone, npush, hist, running, buffer,
                 sender_thread, hooks, assertsOn, mainVars, histVars>>
  /\ UNCHANGED timerVars

\* finally: self._queue_cv.release(); the call returns
PRelease(p) ==
  /\ ppc[p] = "release"
  /\ lock' = IF lock = PT(p) THEN NoThread ELSE lock
  /\ hist' = [hist EXCEPT ![p] =
                Append(@, [call |-> pcall[p], pushes |-> npush[p],
                           notifies |-> nnotify[p]])]
  /\ pdone' = [pdone EXCEPT ![p] = @ + 1]
  /\ npush' = [npush EXCEPT ![p] = 0]
  /\ nnotify' = [nnotify EXCEPT ![p] = 0]
  /\ pcall' = [pcall EXCEPT ![p] = NoCall]
  /\ ppc' = [ppc EXCEPT ![p] = "idle"]
  /\ UNCHANGED <<waiters, queue, senderVars, mainVars, histVars>>
  /\ UNCHANGED timerVars

\* ---------------------------------------------------------------- sender
\* run(), l.105: self._cv.acquire()
SAcquire(s) ==
  /\ spc[s] = "L105"
  /\ lock = NoThread
  /\ lock' = ST(s)
  /\ spc' = [spc EXCEPT ![s] = "L107"]
  /\ UNCHANGED <<waiters, queue, running, buffer, sender_thread, hooks,
                 assertsOn, prodVars, mainVars, histVars>>
  /\ UNCHANGED timerVars

\* SCheckFirst without the test of the flag: wait() whatever it is
SCheckFirstNoTest(s) ==
  /\ spc[s] = "L107"
  /\ lock' = NoThread
  /\ waiters' = waiters \cup {s}
  /\ spc' = [spc EXCEPT ![s] = "L110"]
  /\ UNCHANGED <<queue, running, buffer, sender_thread, hooks, assertsOn,
                 prodVars, mainVars, histVars>>
  /\ UNCHANGED timerVars

\* SCheckFirst with `buffer` a list that can be iterated again: on break it
\* still holds the batch of the previous iteration
SCheckFirstKeepsBatch(s) ==
  /\ spc[s] = "L107"
  /\ IF running[s]
     THEN /\ lock' = NoThread
          /\ waiters' = waiters \cup {s}
          /\ spc' = [spc EXCEPT ![s] = "L110"]
          /\ UNCHANGED buffer
     ELSE /\ spc' = [spc EXCEPT ![s] = "L119b"]
          /\ buffer' = [buffer EXCEPT ![s] =
                          IF drainCuts = <<>> THEN <<>>
                          ELSE Chunks(DrainedBatch(Len(drainCuts)))]
          /\ UNCHANGED <<lock, waiters>>
  /\ UNCHANGED <<queue, running, sender_thread, hooks, assertsOn,
                 prodVars, mainVars, histVars>>
  /\ UNCHANGED timerVars

\* run(), l.107-110: if not self._running: break; else self._cv.wait()
SCheckFirst(s) ==
  /\ spc[s] = "L107"
  /\ IF running[s]
     THEN /\ lock' = NoThread
          /\ waiters' = waiters \cup {s}
          /\ spc' = [spc EXCEPT ![s] = "L110"]
     ELSE /\ spc' = [spc EXCEPT ![s] = "L119b"]
          /\ UNCHANGED <<lock, waiters>>
  /\ UNCHANGED <<queue, running, buffer, sender_thread, hooks, assertsOn,
                 prodVars, mainVars, histVars>>
  /\ UNCHANGED timerVars

\* run(), l.110: wait() returns once notified and the lock is reacquired
SWake(s) ==
  /\ spc[s] = "L110n"
  /\ lock = NoThread
  /\ lock' = ST(s)
  /\ spc' = [spc EXCEPT ![s] = "L112"]
  /\ UNCHANGED <<waiters, queue, running, buffer, sender_thread, hooks,
                 assertsOn, prodVars, mainVars, histVars>>
  /\ UNCHANGED timerVars

\* SDrain with the flag tested first: nothing is drained when it is false
SDrainIfRunning(s) ==
  /\ spc[s] = "L112"
  /\ IF running[s]
     THEN /\ buffer' = [buffer EXCEPT ![s] = Chunks(queue)]
          /\ queue' = <<>>
          /\ drainCuts' = Append(drainCuts, Len(pushLog))
     ELSE UNCHANGED <<buffer, queue, drainCuts>>
  /\ spc' = [spc EXCEPT ![s] = "L115"]
  /\ UNCHANGED <<lock, waiters, running, sender_thread, hooks, assertsOn,
                 prodVars, mainVars, pushLog, sent>>
  /\ UNCHANGED timerVars

\* run(), l.112: buffer = self._queue.flush()
SDrain(s) ==
  /\ spc[s] = "L112"
  /\ buffer' = [buffer EXCEPT ![s] = Chunks(queue)]
  /\ queue' = <<>>
  /\ drainCuts' = Append(drainCuts, Len(pushLog))
  /\ spc' = [spc EXCEPT ![s] = "L115"]
  /\ UNCHANGED <<lock, waiters, running, sender_thread, hooks, assertsOn,
                 prodVars, mainVars, pushLog, sent>>
  /\ UNCHANGED timerVars

\* run(), l.115: if not self._running: break
SCheckSecond(s) ==
  /\ spc[s] = "L115"
  /\ spc' = [spc EXCEPT ![s] = IF running[s] THEN "L119" ELSE "L119b"]
  /\ UNCHANGED <<syncVars, running, buffer, sender_thread, hooks, assertsOn,
                 prodVars, mainVars, histVars>>
  /\ UNCHANGED timerVars

\* SRelease with the release skipped when the loop is left by break
SReleaseNotOnBreak(s) ==
  /\ spc[s] \in {"L119", "L119b"}
  /\ lock' = IF lock = ST(s) /\ spc[s] = "L119" THEN NoThread ELSE lock
  /\ spc' = [spc EXCEPT ![s] = IF spc[s] = "L119" THEN "L120" ELSE "L122"]
  /\ UNCHANGED <<waiters, queue, running, buffer, sender_thread, hooks,
                 assertsOn, prodVars, mainVars, histVars>>
  /\ UNCHANGED timerVars

\* run(), l.118-119: finally: self._cv.release(), on both ways out of the try
SRelease(s) ==
  /\ spc[s] \in {"L119", "L119b"}
  /\ lock' = IF lock = ST(s) THEN NoThread ELSE lock
  /\ spc' = [spc EXCEPT ![s] = IF spc[s] = "L119" THEN "L120" ELSE "L122"]
  /\ UNCHANGED <<waiters, queue, running, buffer, sender_thread, hooks,
                 assertsOn, prodVars, mainVars, histVars>>
  /\ UNCHANGED timerVars

\* SSend iterating the batch from its last payload
SSendLastFirst(s) ==
  /\ spc[s] \in {"L120", "L122"}
  /\ buffer[s] # <<>>
  /\ sent' = Append(sent, [payload |-> buffer[s][Len(buffer[s])],
                           by |-> ST(s), locked |-> lock = ST(s),
                           at |-> spc[s], ok |-> TRUE])
  /\ buffer' = [buffer EXCEPT ![s] = SubSeq(@, 1, Len(@) - 1)]
  /\ UNCHANGED <<syncVars, running, spc, sender_thread, hooks, assertsOn,
                 prodVars, mainVars, pushLog, drainCuts>>
  /\ UNCHANGED timerVars

\* The record of one sendto call in `sent`
Attempt(s, ok) ==
  [payload |-> Head(buffer[s]), by |-> ST(s), locked |-> lock = ST(s),
   at |-> spc[s], ok |-> ok]

\* _flush(), l.89-91: one sendto per payload of the iterable
SSend(s) ==
  /\ spc[s] \in {"L120", "L122"}
  /\ buffer[s] # <<>>
  /\ sent' = Append(sent, Attempt(s, TRUE))
  /\ buffer' = [buffer EXCEPT ![s] = Tail(@)]
  /\ UNCHANGED <<syncVars, running, spc, sender_thread, hooks, assertsOn,
                 prodVars, mainVars, pushLog, drainCuts>>
  /\ UNCHANGED timerVars

\* SSendFail with the exception ending the for loop of _flush
SSendFailAbort(s) ==
  /\ spc[s] \in {"L120", "L122"}
  /\ buffer[s] # <<>>
  /\ sent' = Append(sent, Attempt(s, FALSE))
  /\ buffer' = [buffer EXCEPT ![s] = <<>>]
  /\ UNCHANGED <<syncVars, running, spc, sender_thread, hooks, assertsOn,
                 prodVars, mainVars, pushLog, drainCuts>>
  /\ UNCHANGED timerVars

\* _flush(), l.90-93: sendto raises socket.error; except socket.error: pass,
\* and the for loop goes on with the next payload
SSendFail(s) ==
  /\ spc[s] \in {"L120", "L122"}
  /\ buffer[s] # <<>>
  /\ sent' = Append(sent, Attempt(s, FALSE))
  /\ buffer' = [buffer EXCEPT ![s] = Tail(@)]
  /\ UNCHANGED <<syncVars, running, spc, sender_thread, hooks, assertsOn,
                 prodVars, mainVars, pushLog, drainCuts>>
  /\ UNCHANGED timerVars

\* SFlushDone with run() ending after the loop without the final _flush
SFlushDoneNoFinal(s) ==
  /\ spc[s] \in {"L120", "L122"}
  /\ spc[s] = "L120" => buffer[s] = <<>>
  /\ spc' = [spc EXCEPT ![s] = IF spc[s] = "L120" THEN "L105" ELSE "dead"]
  /\ UNCHANGED <<syncVars, running, buffer, sender_thread, hooks, assertsOn,
                 prodVars, mainVars, histVars>>
  /\ UNCHANGED timerVars

\* _flush() returns: back to the loop head (l.120) or run() ends (l.122)
SFlushDone(s) ==
  /\ spc[s] \in {"L120", "L122"}
  /\ buffer[s] = <<>>
  /\ spc' = [spc EXCEPT ![s] = IF spc[s] = "L120" THEN "L105" ELSE "dead"]
  /\ UNCHANGED <<syncVars, running, buffer, sender_thread, hooks, assertsOn,
                 prodVars, mainVars, histVars>>
  /\ UNCHANGED timerVars

\* ---------------------------------------------------------------- owner
\* The thread that owns the client calls stop(), __enter__ and __exit__.

\* stop() is entered, directly or from __exit__ (l.278)
MStopCall(op) ==
  /\ mpc = "idle"
  /\ mops < MaxOps
  /\ op \in {"stop", "exit"}
  /\ op = "exit" => scopes > 0
  /\ scopes' = IF op = "exit" THEN scopes - 1 ELSE scopes
  /\ mop' = op
  /\ mops' = mops + 1
  /\ raised' = FALSE
  /\ stopDone' = FALSE
  /\ mustDeliver' = ReturnedEvents
  /\ allReturnedAtStop' = \A p \in Producers : pdone[p] = MaxCalls
  /\ mpc' = "L129"
  /\ UNCHANGED <<enterVars, syncVars, senderVars, prodVars,
                 histVars>>
  /\ UNCHANGED <<stopSnap, timerVars>>

\* ask_stop(), l.129: assert self._running
MAssert ==
  /\ mpc = "L129"
  /\ IF running[sender_thread]
     THEN /\ mpc' = "L131"
          /\ UNCHANGED <<raised, assertsOn>>
     ELSE /\ assertsOn' \in (IF assertsOn = "?" THEN {"on", "off"}
                                                ELSE {assertsOn})
          /\ raised' = (assertsOn' = "on")
          /\ mpc' = IF assertsOn' = "on" THEN "idle" ELSE "L131"
  /\ UNCHANGED <<mop, mops, scopes, stopDone, mustDeliver, allReturnedAtStop,
                 enterVars, syncVars, running, spc, buffer,
                 sender_thread, hooks, prodVars, histVars>>
  /\ UNCHANGED <<stopSnap, timerVars>>

\* ask_stop(), l.131: self._cv.acquire()
MAskAcquire ==
  /\ mpc = "L131"
  /\ lock = NoThread
  /\ lock' = MainT
  /\ mpc' = "L132"
  /\ UNCHANGED <<waiters, queue, mop, mops, scopes, raised, stopDone,
                 mustDeliver, allReturnedAtStop, enterVars,
                 senderVars,
                 prodVars, histVars>>
  /\ UNCHANGED <<stopSnap, timerVars>>

\* ask_stop(), l.132: self._running = False
MAskSet ==
  /\ mpc = "L132"
  /\ running' = [running EXCEPT ![sender_thread] = FALSE]
  /\ stopSnap' = [waiting |-> spc[sender_thread] \in {"L110", "L110n"},
                  mark |-> Len(pushLog)]
  /\ mpc' = "L133"
  /\ UNCHANGED <<syncVars, spc, buffer, sender_thread, hooks, assertsOn, mop,
                 mops, scopes, raised, stopDone, mustDeliver,
                 allReturnedAtStop, enterVars, prodVars,
                 histVars>>
  /\ UNCHANGED timerVars

\* ask_stop(), l.133: self._cv.notify()
MAskNotify ==
  /\ mpc = "L133"
  /\ \E w \in waiters \cup {0} : Notify(w)
  /\ mpc' = "L135"
  /\ UNCHANGED <<lock, queue, running, buffer, sender_thread, hooks,
                 assertsOn, mop, mops, scopes, raised, stopDone, mustDeliver,
                 allReturnedAtStop, enterVars, prodVars,
                 histVars>>
  /\ UNCHANGED <<stopSnap, timerVars>>

\* ask_stop(), l.135: finally: self._cv.release()
MAskRelease ==
  /\ mpc = "L135"
  /\ lock' = IF lock = MainT THEN NoThread ELSE lock
  /\ mpc' = "L265"
  /\ UNCHANGED <<waiters, queue, mop, mops, scopes, raised, stopDone,
                 mustDeliver, allReturnedAtStop, enterVars,
                 senderVars,
                 prodVars, histVars>>
  /\ UNCHANGED <<stopSnap, timerVars>>

\* stop(), l.265: self._sender_thread.join()
MJoin ==
  /\ mpc = "L265"
  /\ ~Alive(sender_thread)
  /\ mpc' = "L268"
  /\ UNCHANGED <<mop, mops, scopes, raised, stopDone, mustDeliver,
                 allReturnedAtStop, enterVars, syncVars,
                 senderVars,
                 prodVars, histVars>>
  /\ UNCHANGED <<stopSnap, timerVars>>

\* MUnregister with the registration left in place
MUnregisterKeep ==
  /\ mpc = "L268"
  /\ hooks' = hooks
  /\ stopDone' = TRUE
  /\ mpc' = "idle"
  /\ UNCHANGED <<running, spc, buffer, sender_thread, assertsOn, mop, mops,
                 scopes, raised, mustDeliver, allReturnedAtStop, enterVars,
                 syncVars, prodVars, histVars>>
  /\ UNCHANGED <<stopSnap, timerVars>>

\* stop(), l.268: atexit.unregister(self.stop); stop() returns
MUnregister ==
  /\ mpc = "L268"
  /\ hooks' = 0
  /\ stopDone' = TRUE
  /\ mpc' = "idle"
  /\ UNCHANGED <<running, spc, buffer, sender_thread, assertsOn, mop, mops,
                 scopes, raised, mustDeliver, allReturnedAtStop, enterVars,
                 syncVars, prodVars, histVars>>
  /\ UNCHANGED <<stopSnap, timerVars>>

\* __enter__(), l.272: if not self._sender_thread.is_alive(): start a sender
MEnter ==
  /\ mpc = "idle"
  /\ mops < MaxOps
  /\ Alive(sender_thread) \/ sender_thread < MaxSenders
  /\ mop' = "enter"
  /\ mops' = mops + 1
  /\ scopes' = scopes + 1
  /\ raised' = FALSE
  /\ stopDone' = FALSE
  /\ enterStarted' = FALSE
  /\ aliveAtEnter' = Alive(sender_thread)
  /\ enterMark' = Len(pushLog)
  /\ mpc' = IF Alive(sender_thread) THEN "idle" ELSE "L255"
  /\ UNCHANGED <<mustDeliver, allReturnedAtStop, syncVars, senderVars,
                 prodVars, histVars>>
  /\ UNCHANGED <<stopSnap, timerVars>>

\* _start_sender_thread(), l.255: self._sender_thread = CystatsSender(...)
MCreate ==
  /\ mpc = "L255"
  /\ sender_thread' = sender_thread + 1
  /\ running' = [running EXCEPT ![sender_thread + 1] = FALSE]
  /\ buffer' = [buffer EXCEPT ![sender_thread + 1] = <<>>]
  /\ spc' = [spc EXCEPT ![sender_thread + 1] = "unstarted"]
  /\ enterStarted' = TRUE
  /\ mpc' = "L143"
  /\ UNCHANGED <<hooks, assertsOn, mop, mops, scopes, raised, stopDone,
                 mustDeliver, allReturnedAtStop, aliveAtEnter, enterMark,
                 syncVars,
                 prodVars, histVars>>
  /\ UNCHANGED <<stopSnap, timerVars>>

\* start(), l.143: self._cv.acquire()
MStartAcquire ==
  /\ mpc = "L143"
  /\ lock = NoThread
  /\ lock' = MainT
  /\ mpc' = "L144"
  /\ UNCHANGED <<waiters, queue, mop, mops, scopes, raised, stopDone,
                 mustDeliver, allReturnedAtStop, enterVars,
                 senderVars,
                 prodVars, histVars>>
  /\ UNCHANGED <<stopSnap, timerVars>>

\* start(), l.144: self._running = True
MStartSet ==
  /\ mpc = "L144"
  /\ running' = [running EXCEPT ![sender_thread] = TRUE]
  /\ mpc' = "L146"
  /\ UNCHANGED <<syncVars, spc, buffer, sender_thread, hooks, assertsOn, mop,
                 mops, scopes, raised, stopDone, mustDeliver,
                 allReturnedAtStop, enterVars, prodVars,
                 histVars>>
  /\ UNCHANGED <<stopSnap, timerVars>>

\* start(), l.146: finally: self._cv.release()
MStartRelease ==
  /\ mpc = "L146"
  /\ lock' = IF lock = MainT THEN NoThread ELSE lock
  /\ mpc' = "L147"
  /\ UNCHANGED <<waiters, queue, mop, mops, scopes, raised, stopDone,
                 mustDeliver, allReturnedAtStop, enterVars,
                 senderVars,
                 prodVars, histVars>>
  /\ UNCHANGED <<stopSnap, timerVars>>

\* start(), l.147: super().start(): the thread begins run()
MThreadStart ==
  /\ mpc = "L147"
  /\ spc' = [spc EXCEPT ![sender_thread] = "L105"]
  /\ mpc' = "L257"
  /\ UNCHANGED <<syncVars, running, buffer, sender_thread, hooks, assertsOn,
                 mop, mops, scopes, raised, stopDone, mustDeliver,
                 allReturnedAtStop, enterVars, prodVars,
                 histVars>>
  /\ UNCHANGED <<stopSnap, timerVars>>

\* _start_sender_thread(), l.257: atexit.register(self.stop); __enter__ returns
MRegister ==
  /\ mpc = "L257"
  /\ hooks' = hooks + 1
  /\ enterMark' = Len(pushLog)
  /\ mpc' = "idle"
  /\ UNCHANGED <<running, spc, buffer, sender_thread, assertsOn, mop, mops,
                 scopes, raised, stopDone, mustDeliver, allReturnedAtStop,
                 enterStarted, aliveAtEnter, syncVars, prodVars, histVars>>
  /\ UNCHANGED <<stopSnap, timerVars>>

\* ---------------------------------------------------------------- Timer
MaxTime == 3           \* clock ticks, in half milliseconds
MaxTimerCalls == 4     \* calls made on the Timer

\* int(round(1000 * dt)) for dt of h half milliseconds: round half to even
RoundMs(h) ==
  IF h % 2 = 0 THEN h \div 2
  ELSE IF ((h - 1) \div 2) % 2 = 0 THEN (h - 1) \div 2 ELSE (h + 1) \div 2

\* time passes
Tick ==
  /\ now < MaxTime
  /\ now' = now + 1
  /\ UNCHANGED <<t_start_time, t_ms, t_sent, t_raised, timings, t_since,
                 t_calls, t_open, t_wrapped, t_explicit, t_last, clientVars>>

\* Timer.start(), l.44-48
StartBody ==
  /\ t_ms' = -1
  /\ t_sent' = FALSE
  /\ t_start_time' = now
  /\ t_since' = 0
  /\ t_raised' = FALSE
  /\ UNCHANGED timings

\* SendBody without the test of _sent
SendBodyNoSentTest(ms) ==
  IF ms = -1
  THEN /\ t_raised' = TRUE
       /\ UNCHANGED <<t_sent, timings, t_since>>
  ELSE /\ t_sent' = TRUE
       /\ timings' = Append(timings, ms)
       /\ t_since' = t_since + 1
       /\ t_raised' = FALSE

\* Timer.send(), l.61-67, for a Timer whose ms is `ms`
SendBody(ms) ==
  IF ms = -1 \/ t_sent
  THEN /\ t_raised' = TRUE
       /\ UNCHANGED <<t_sent, timings, t_since>>
  ELSE /\ t_sent' = TRUE
       /\ timings' = Append(timings, ms)
       /\ t_since' = t_since + 1
       /\ t_raised' = FALSE

\* Timer.stop(send), l.51-58
StopBody(send) ==
  IF t_start_time = -1
  THEN /\ t_raised' = TRUE
       /\ UNCHANGED <<t_ms, t_sent, timings, t_since>>
  ELSE /\ t_ms' = RoundMs(now - t_start_time)
       /\ IF send
          THEN SendBody(RoundMs(now - t_start_time))
          ELSE /\ t_raised' = FALSE
               /\ UNCHANGED <<t_sent, timings, t_since>>

TimerCall ==
  /\ t_calls < MaxTimerCalls
  /\ t_calls' = t_calls + 1
  /\ UNCHANGED <<now, clientVars>>

\* timer.start()
TimerStart ==
  /\ TimerCall
  /\ t_last' = "start"
  /\ StartBody
  /\ t_explicit' = TRUE
  /\ UNCHANGED <<t_open, t_wrapped>>

\* timer.stop(send)
TimerStop(send) ==
  /\ TimerCall
  /\ t_last' = "stop"
  /\ StopBody(send)
  /\ t_explicit' = TRUE
  /\ UNCHANGED <<t_start_time, t_open, t_wrapped>>

\* timer.send()
TimerSend ==
  /\ TimerCall
  /\ t_last' = "send"
  /\ SendBody(t_ms)
  /\ t_explicit' = TRUE
  /\ UNCHANGED <<t_start_time, t_ms, t_open, t_wrapped>>

\* Timer.__enter__, l.36-37 (also the decorator's wrapper, l.30-32)
TimerEnter ==
  /\ TimerCall
  /\ t_last' = "enter"
  /\ StartBody
  /\ t_open' = t_open + 1
  /\ UNCHANGED <<t_wrapped, t_explicit>>

\* Timer.__exit__, l.40-41: self.stop()
TimerExit ==
  /\ TimerCall
  /\ t_last' = "exit"
  /\ t_open > 0
  /\ StopBody(TRUE)
  /\ t_open' = t_open - 1
  /\ t_wrapped' = t_wrapped + 1
  /\ UNCHANGED <<t_start_time, t_explicit>>

\* ---------------------------------------------------------------- Next
SenderStep(s) ==
  \/ SAcquire(s)
  \/ SCheckFirst(s)
  \/ SWake(s)
  \/ SDrain(s)
  \/ SCheckSecond(s)
  \/ SRelease(s)
  \/ SSend(s)
  \/ SFlushDone(s)

\* The steps of incr(), timing() and set() after the sampling test
CounterStep(p) ==
  \/ PAcquire(p)
  \/ PPush(p)
  \/ PNotify(p)
  \/ PRelease(p)

\* The steps of any recording call after the sampling test
ProducerStep(p) ==
  \/ CounterStep(p)
  \/ PPushReset(p)

StopStep ==
  \/ MAssert
  \/ MAskAcquire
  \/ MAskSet
  \/ MAskNotify
  \/ MAskRelease
  \/ MJoin
  \/ MUnregister

StartStep ==
  \/ MCreate
  \/ MStartAcquire
  \/ MStartSet
  \/ MStartRelease
  \/ MThreadStart
  \/ MRegister

\* Producers, the sender and an owner that calls stop().
Next ==
  \/ \E p \in Producers, c \in CoreInputs, d \in CoreDraws : PCall(p, c, d)
  \/ \E p \in Producers : CounterStep(p)
  \/ \E s \in Senders : SenderStep(s)
  \/ MStopCall("stop")
  \/ StopStep

Spec == Init /\ [][Next]_vars

\* Spec under fair scheduling: a thread that can take a step eventually
\* takes one, and sendto returns.
LiveSpec ==
  /\ Init
  /\ [][Next]_vars
  /\ WF_vars(StopStep)
  /\ \A s \in Senders : WF_vars(SenderStep(s))
  /\ \A p \in Producers : WF_vars(CounterStep(p))

\* Spec with a transport that can fail: any sendto may raise socket.error.
\* (A failed sendto differs from a successful one only in the `ok` field of
\* its record, so the other specifications leave the failure out.)
ErrNext ==
  \/ \E p \in Producers, c \in CoreInputs, d \in CoreDraws : PCall(p, c, d)
  \/ \E p \in Producers : CounterStep(p)
  \/ \E s \in Senders : SenderStep(s)
  \/ \E s \in Senders : SSendFail(s)
  \/ MStopCall("stop")
  \/ StopStep

ErrSpec == Init /\ [][ErrNext]_vars

\* Scoped use: __enter__ and __exit__ restart and stop the sender while one
\* producer records.
LifeNext ==
  \/ \E c \in CoreInputs, d \in CoreDraws : PCall(1, c, d)
  \/ CounterStep(1)
  \/ \E s \in Senders : SenderStep(s)
  \/ \E op \in {"stop", "exit"} : MStopCall(op)
  \/ MEnter
  \/ StopStep
  \/ StartStep

LifeSpec == Init /\ [][LifeNext]_vars

\* Scoped use with every producer recording: the sender is stopped and
\* restarted while the producers go on.
RestartNext ==
  \/ \E p \in Producers, c \in CoreInputs, d \in CoreDraws : PCall(p, c, d)
  \/ \E p \in Producers : CounterStep(p)
  \/ \E s \in Senders : SenderStep(s)
  \/ \E op \in {"stop", "exit"} : MStopCall(op)
  \/ MEnter
  \/ StopStep
  \/ StartStep

RestartSpec == Init /\ [][RestartNext]_vars

\* Recording calls of every kind, rate and draw against a running sender:
\* producer 1 issues them, the other producers issue full-rate counters.
RecNext ==
  \/ \E c \in RecInputs, d \in Draws : PCall(1, c, d)
  \/ \E p \in Producers \ {1}, c \in CoreInputs, d \in CoreDraws :
       PCall(p, c, d)
  \/ \E p \in Producers : ProducerStep(p)
  \/ \E s \in Senders : SenderStep(s)

RecSpec == Init /\ [][RecNext]_vars

\* One Timer used explicitly and as a context manager / decorator.
TimerNext ==
  \/ Tick
  \/ TimerStart
  \/ \E send \in BOOLEAN : TimerStop(send)
  \/ TimerSend
  \/ TimerEnter
  \/ TimerExit

TimerSpec == Init /\ [][TimerNext]_vars

\* ================================================================ properties

\* ---------------------------------------------------------------- C1
\* C1: when the first stop() returns, every event pushed by a recording call
\* that had returned before stop() was called has been handed to sendto.
C1_DeliveredAtStop ==
  (stopDone /\ mops = 1) =>
    \A e \in mustDeliver : \E i \in DOMAIN SentEvents : SentEvents[i] = e

\* ---------------------------------------------------------------- C2
\* C2: when every producer has returned from all its counter calls before
\* stop() is called, exactly NumProducers * MaxCalls counter events have been
\* handed to sendto when stop() returns.
C2_ExactCount ==
  (stopDone /\ mops = 1 /\ allReturnedAtStop) =>
    Cardinality({i \in DOMAIN SentEvents : SentEvents[i].kind = "counter"})
      = NumProducers * MaxCalls

\* ---------------------------------------------------------------- C3
\* C3: a stop() called after the sender was stopped does not raise, sends
\* nothing and changes nothing of the client's state.
C3_StopIdempotent ==
  [][mops' >= 2 =>
       /\ ~raised'
       /\ sent' = sent
       /\ running' = running
       /\ sender_thread' = sender_thread
       /\ spc' = spc
       /\ hooks' = hooks]_vars

\* ---------------------------------------------------------------- C5
\* C5: a sender that is inside _flush (in the loop or at exit) does not hold
\* the lock, every sendto was made by a sender thread and none under the lock.
C5_NoSendUnderLock ==
  /\ \A s \in Senders : spc[s] \in {"L120", "L122"} => lock # ST(s)
  /\ \A i \in DOMAIN sent : sent[i].by[1] = "sender" /\ ~sent[i].locked

\* C5 witness: payloads were sent in the loop and at exit while a producer
\* held the lock or was about to take it.
C5_Witness ==
  /\ \E i \in DOMAIN sent : sent[i].at = "L120"
  /\ \E s \in Senders : spc[s] = "L122" /\ buffer[s] # <<>>
  /\ \E p \in Producers : ppc[p] \in {"acquire", "push", "notify", "release"}

\* ---------------------------------------------------------------- C6
\* The arguments of the call that pushed event e
CallOf(e) ==
  IF e.n <= Len(hist[e.p]) THEN hist[e.p][e.n].call ELSE pcall[e.p]

\* C6: a recorded gauge with value < 0 and delta=False pushes a gauge of 0 at
\* rate 1.0 and then the gauge of value at the call's rate, adjacent in push
\* order, under one lock hold and with no drain between them; any other
\* recorded gauge pushes one event.
C6_GaugeReset ==
  /\ \A i \in DOMAIN pushLog :
       LET e == pushLog[i]
           c == CallOf(e)
           neg == c.val < 0 /\ ~c.delta
       IN e.kind = "gauge" =>
            /\ c.op = "gauge"
            /\ e.part = 0 =>
                 /\ neg
                 /\ e.val = 0 /\ e.rate = 10 /\ ~e.delta
                 /\ \A k \in DOMAIN drainCuts : drainCuts[k] # i
                 /\ IF i < Len(pushLog)
                    THEN pushLog[i + 1] =
                           Event(e.p, e.n, 1, "gauge", c.val, c.rate, c.delta)
                    ELSE ppc[e.p] = "push" /\ lock = PT(e.p)
            /\ e.part = 1 =>
                 /\ e.val = c.val /\ e.rate = c.rate /\ e.delta = c.delta
                 /\ neg => i > 1 /\ pushLog[i - 1].part = 0
                             /\ pushLog[i - 1].p = e.p /\ pushLog[i - 1].n = e.n
                 /\ ~neg => i = 1 \/ pushLog[i - 1].p # e.p
                             \/ pushLog[i - 1].n # e.n
  /\ \A p \in Producers : \A k \in DOMAIN hist[p] :
       LET h == hist[p][k]
       IN (h.call.op = "gauge" /\ h.call.draw <= h.call.rate) =>
            h.pushes = IF h.call.val < 0 /\ ~h.call.delta THEN 2 ELSE 1

\* C6 witness: a negative absolute gauge returned after two pushes, its reset
\* was sent, another producer pushed too, and a delta gauge pushed once.
C6_Witness ==
  /\ \E k \in DOMAIN hist[1] :
       /\ hist[1][k].call.op = "gauge" /\ hist[1][k].call.val < 0
       /\ ~hist[1][k].call.delta /\ hist[1][k].pushes = 2
  /\ \E k \in DOMAIN hist[1] :
       /\ hist[1][k].call.op = "gauge" /\ hist[1][k].call.val < 0
       /\ hist[1][k].call.delta /\ hist[1][k].pushes = 1
  /\ \E i \in DOMAIN SentEvents : SentEvents[i].part = 0
  /\ \E i \in DOMAIN pushLog : pushLog[i].p # 1

\* ---------------------------------------------------------------- C7
\* C7, returned calls: a call whose draw exceeds its rate pushed nothing and
\* notified nobody; any other call pushed and notified exactly once; no
\* pushed event belongs to a dropped call.
C7_Calls ==
  /\ \A p \in Producers : \A k \in DOMAIN hist[p] :
       LET h == hist[p][k]
       IN IF h.call.draw > h.call.rate
          THEN h.pushes = 0 /\ h.notifies = 0
          ELSE h.pushes >= 1 /\ h.notifies = 1
  /\ \A i \in DOMAIN pushLog :
       CallOf(pushLog[i]).draw <= CallOf(pushLog[i]).rate

\* C7, the dropping step: it leaves the collector, the lock, the waiters and
\* the running flags as they were.
C7_DropStep ==
  \A p \in Producers :
    (/\ Len(hist'[p]) = Len(hist[p]) + 1
     /\ hist'[p][Len(hist'[p])].call.draw > hist'[p][Len(hist'[p])].call.rate)
    => /\ queue' = queue
       /\ pushLog' = pushLog
       /\ running' = running
       /\ waiters' = waiters
       /\ spc' = spc
       /\ lock' = lock

\* C7: a sampled-out call changes nothing; a sampled-in call pushes and
\* notifies exactly once.
C7_SamplingDrop == []C7_Calls /\ [][C7_DropStep]_vars

\* C7 witness: each operation was dropped once, and a call was recorded.
C7_Witness ==
  /\ \E k \in DOMAIN hist[1] :
       /\ hist[1][k].call.op = "gauge" /\ hist[1][k].call.val < 0
       /\ ~hist[1][k].call.delta
       /\ hist[1][k].call.draw > hist[1][k].call.rate
  /\ \E k \in DOMAIN hist[1] :
       /\ hist[1][k].call.draw <= hist[1][k].call.rate
       /\ hist[1][k].call.rate = 5
       /\ hist[1][k].notifies = 1
  /\ queue # <<>>

\* ---------------------------------------------------------------- C8
\* C8: no counter, timer or set event of a call made with rate 0.0 is ever
\* pushed or sent.
C8_RateZeroNeverRecords ==
  /\ \A i \in DOMAIN pushLog :
       pushLog[i].kind \in {"counter", "timer", "set"} => pushLog[i].rate # 0
  /\ \A i \in DOMAIN SentEvents :
       SentEvents[i].kind \in {"counter", "timer", "set"}
         => SentEvents[i].rate # 0

\* ---------------------------------------------------------------- C9
\* C9: at most one sender thread is alive; __enter__ starts a sender exactly
\* when the current one is not alive, so one is running when it returns; and
\* when the __exit__ of a scope entered after a stop returns, the events
\* recorded in that scope by calls that returned before the __exit__ have
\* been handed to sendto.
C9_ScopedRestart ==
  /\ Cardinality({s \in Senders : Alive(s)}) <= 1
  /\ (mop = "enter" /\ mpc = "idle") =>
       /\ enterStarted <=> ~aliveAtEnter
       /\ Alive(sender_thread) /\ running[sender_thread]
  /\ (mop = "exit" /\ stopDone /\ sender_thread >= 2) =>
       \A k \in DOMAIN pushLog :
         (k > enterMark /\ pushLog[k] \in mustDeliver) =>
           \E i \in DOMAIN SentEvents : SentEvents[i] = pushLog[k]

\* ---------------------------------------------------------------- C4
\* C4: under fair scheduling, a sender whose flag ask_stop() has cleared
\* eventually terminates, and the join of stop() eventually returns.
C4_StopTerminates ==
  /\ \A s \in Senders : (Alive(s) /\ ~running[s]) ~> (spc[s] = "dead")
  /\ (mpc = "L265") ~> (mpc = "L268")

\* C4 witness: the flag was cleared while the sender was blocked in wait()
\* and a producer was about to push and notify.
C4_Witness ==
  /\ \E s \in Senders : ~running[s] /\ spc[s] = "L110"
  /\ \E p \in Producers : ppc[p] = "acquire"

\* ---------------------------------------------------------------- C10
\* C10: client.timing is called at most once between two start() calls, and
\* once every wrapped execution of a Timer used only as a context manager or
\* decorator has exited, it has been called exactly once per execution.
C10_TimerOnce ==
  /\ t_since <= 1
  /\ (~t_explicit /\ t_open = 0) => Len(timings) = t_wrapped

\* ---------------------------------------------------------------- C11
\* A Timer call that is a usage error: stop() (also from __exit__) with no
\* start() before it, send() with no duration measured since the last start(),
\* send() of a duration that was already sent.
C11_UsageError ==
  \/ t_last' \in {"stop", "exit"} /\ t_start_time = -1
  \/ t_last' = "send" /\ t_ms = -1
  \/ t_last' = "send" /\ t_sent

C11_Step ==
  t_calls' = t_calls + 1 =>
    /\ C11_UsageError => t_raised'
    /\ t_raised' => timings' = timings

\* C11: stop() on a Timer that was never started raises, send() raises when
\* no duration has been measured since the last start() and when the measured
\* duration was already sent, and a call that raises does not invoke
\* client.timing.
C11_TimerUsageErrors == [][C11_Step]_vars

\* send() was called on a Timer whose duration had been sent, and raised
C11_Witness ==
  /\ t_last = "send"
  /\ t_raised
  /\ t_sent
  /\ Len(timings) = 1

\* ---------------------------------------------------------------- C12
RECURSIVE Unsent(_)
\* The payloads the senders 1..s still hold
Unsent(s) == IF s = 0 THEN <<>> ELSE Unsent(s - 1) \o buffer[s]

\* Every payload drained so far has been passed to sendto exactly once, in
\* drain order, whether sendto failed or not, or is still to be passed.
C12_OncePerPayload ==
  [i \in DOMAIN sent |-> sent[i].payload] \o Unsent(MaxSenders)
    = DrainedPayloads(Len(drainCuts))

\* A sendto that fails changes nothing but the position in the batch
C12_FailStep ==
  (Len(sent') = Len(sent) + 1 /\ ~sent'[Len(sent')].ok) =>
    /\ \E s \in Senders : buffer' = [buffer EXCEPT ![s] = Tail(@)]
    /\ UNCHANGED <<running, spc, raised, stopDone, mpc, ppc, hist, lock,
                   waiters, queue>>

\* C12: whichever sendto calls fail, every payload of every batch is passed
\* to sendto exactly once, in drain order, without retry; a failure leaves
\* the sender thread where it is in _flush with the rest of the batch still
\* to send, leaves the running flag alone and is seen neither by a producer
\* nor by stop().
C12_TransportErrorsSwallowed == []C12_OncePerPayload /\ [][C12_FailStep]_vars

\* The only payload of the first batch failed, the sender went on to send a
\* later batch, and stop() returned normally
C12_Witness ==
  /\ Len(sent) >= 2
  /\ ~sent[1].ok
  /\ sent[2].ok
  /\ \E k \in DOMAIN drainCuts : drainCuts[k] = Len(sent[1].payload)
  /\ sent[1].at = "L120"
  /\ stopDone
  /\ ~raised

\* ---------------------------------------------------------------- C13
\* The sendto calls that carried event e
SendsOf(e) == {i \in DOMAIN sent : e \in Range(sent[i].payload)}

\* C13: if the sender was inside cv.wait() when ask_stop cleared the flag,
\* then once its thread has ended (so before join and stop() return) every
\* event pushed before the flag was cleared has been handed to sendto, and
\* the events of the drain made on wake-up were sent by the final _flush.
C13_DrainOnExit ==
  (stopSnap.waiting /\ spc[sender_thread] = "dead") =>
    /\ \A k \in 1..stopSnap.mark : SendsOf(pushLog[k]) # {}
    /\ \A k \in DOMAIN pushLog :
         (drainCuts # <<>> /\ pushLog[k] \in
            Range(DrainedBatch(Len(drainCuts)))) =>
           \A i \in SendsOf(pushLog[k]) : sent[i].at = "L122"

\* stop() returned after a stop request that found the sender in wait() with
\* two events pending, one of them pushed while the sender was sending
C13_Witness ==
  /\ mops = 1
  /\ stopDone
  /\ stopSnap.waiting
  /\ stopSnap.mark >= 3
  /\ Len(drainCuts) = 2
  /\ drainCuts[2] - drainCuts[1] >= 2
  /\ \E i \in DOMAIN sent : sent[i].at = "L122"

\* ---------------------------------------------------------------- C14
\* C14 as stated: the sender drains the collector only while its running flag
\* is true; a wake-up that finds the flag false drains nothing.
C14_DrainOnlyIfRunning ==
  [][drainCuts' # drainCuts =>
       \A s \in Senders : spc[s] = "L112" => running[s]]_vars

\* C14: on every wake-up the sender drains the collector first and tests the
\* running flag afterwards: when it is at the second test (l.115), whatever
\* the flag, the collector is empty and its batch holds every event that was
\* pending at the wake-up.
C14_DrainThenCheck ==
  \A s \in Senders :
    spc[s] = "L115" =>
      /\ lock = ST(s)
      /\ queue = <<>>
      /\ drainCuts # <<>>
      /\ drainCuts[Len(drainCuts)] = Len(pushLog)
      /\ Flatten(buffer[s]) = DrainedBatch(Len(drainCuts))

\* The sender is at the second test with the flag false and a batch drained
\* after the flag was cleared
C14_Witness ==
  \E s \in Senders :
    /\ spc[s] = "L115"
    /\ ~running[s]
    /\ buffer[s] # <<>>
    /\ stopSnap.mark = drainCuts[Len(drainCuts)]

\* ---------------------------------------------------------------- C15
\* C15: a thread that is about to read or write a sender's _running (the
\* assert of ask_stop at l.129 where asserts are executed, the writes at
\* l.132 and l.144, the tests of run() at l.107 and l.115) holds the lock.
C15_FlagUnderLock ==
  /\ mpc \in {"L132", "L144"} => lock = MainT
  /\ (mpc = "L129" /\ assertsOn # "off") => lock = MainT
  /\ \A s \in Senders : spc[s] \in {"L107", "L115"} => lock = ST(s)

\* ---------------------------------------------------------------- C16
\* The threads inside a MetricCollector operation: a producer at push_* or a
\* sender at flush()
InCollector ==
  {PT(p) : p \in {q \in Producers : ppc[q] \in {"push0", "push"}}}
    \cup {ST(s) : s \in {r \in Senders : spc[r] = "L112"}}

\* C16: at most one thread is inside a MetricCollector operation, and that
\* thread holds the lock; also when a second sender has been started on the
\* collector and lock of the first.
C16_CollectorExclusive ==
  /\ Cardinality(InCollector) <= 1
  /\ \A t \in InCollector : lock = t

\* The second sender is draining while a producer waits for the lock
C16_Witness ==
  /\ sender_thread = 2
  /\ ST(2) \in InCollector
  /\ \E p \in Producers : ppc[p] = "acquire"

\* ---------------------------------------------------------------- C17
\* C17: between the owner's operations (construction, __enter__, __exit__,
\* stop(), whether they returned or raised) self.stop is registered with
\* atexit once if the client's sender has been started and not stopped, and
\* not at all otherwise.
C17_ExitHook ==
  mpc = "idle" =>
    hooks = (IF running[sender_thread] /\ Alive(sender_thread) THEN 1 ELSE 0)

\* After stop() and a restarting __enter__ the hook is registered again
C17_Witness ==
  /\ mpc = "idle"
  /\ mop = "enter"
  /\ enterStarted
  /\ sender_thread = 2
  /\ hooks = 1

\* ---------------------------------------------------------------- C18
\* s is an initial part of t
IsPrefix(s, t) == Len(s) <= Len(t) /\ s = SubSeq(t, 1, Len(s))

\* C18: the events handed to sendto so far, in the order they were handed,
\* are an initial part of the events in push order, so an event is never
\* sent before one pushed earlier, whoever pushed it and whichever sender
\* sends it; and the payloads sent are an initial part of the payloads of the
\* drains, in drain order.
C18_TransmissionOrder ==
  /\ IsPrefix(SentEvents, pushLog)
  /\ IsPrefix([i \in DOMAIN sent |-> sent[i].payload],
              DrainedPayloads(Len(drainCuts)))

\* The first sender sent a batch of two payloads, the first one carrying
\* events of both producers, and the restarted sender sent a later event
C18_Witness ==
  /\ Len(sent) = 3
  /\ drainCuts[1] = 3
  /\ sent[1].payload[1].p # sent[1].payload[2].p
  /\ sent[2].by = ST(1)
  /\ sent[3].by = ST(2)

\* ---------------------------------------------------------------- C19
\* C19: the events handed to sendto, then the events of the batches the
\* senders hold, then the events pending in the collector are exactly the
\* events pushed, each once; so every pushed event is in one of the three
\* places and none is handed to sendto twice, also not by the final _flush
\* of a sender that left the loop at the first test of the flag.
C19_Conservation ==
  /\ SentEvents \o Flatten(Unsent(MaxSenders)) \o queue = pushLog
  /\ \A i, j \in DOMAIN pushLog : pushLog[i] = pushLog[j] => i = j

\* A sender that had sent a batch in the loop left it at the first test of
\* the flag and ended, with one event sent and one left in the collector
C19_Witness ==
  /\ spc[1] = "dead"
  /\ Len(drainCuts) = 1
  /\ Len(sent) = 1
  /\ sent[1].at = "L120"
  /\ queue # <<>>

\* ---------------------------------------------------------------- C20
\* No thread is inside a call: every recording call has returned and the
\* owner is between operations
NoCallInProgress ==
  /\ \A p \in Producers : ppc[p] = "idle"
  /\ mpc = "idle"

\* C20: while the sender is running, an event pending in the collector is
\* never left with nothing to send it: when no call is in progress, the
\* sender is not blocked in wait() without a notification, the one position
\* it leaves only at a later recording call or stop request.
C20_NoStrandedData ==
  (queue # <<>> /\ NoCallInProgress /\ running[sender_thread]) =>
    spc[sender_thread] # "L110"
====
